---- MODULE Spec2Model ----
(***************************************************************************)
(* The Reading Room waterfall queue engine: the registrations table, its   *)
(* BEFORE INSERT triggers, the promote_next_user and batch_rollout stored  *)
(* procedures, the waterfall edge function, the expiry cron job and the    *)
(* register / respond / rollout / kill-switch API routes, for one event,    *)
(* and the operations that are given an event id over the rows of several  *)
(* events. Time is counted in hours since Monday 00:00 IST of the week.    *)
(***************************************************************************)
EXTENDS Integers, FiniteSets, Sequences, TLC

\* ---- bounds of the model ----
MaxUsers == 2
MaxProcs == 2
MaxReqs == 2
MaxCalls == 2
MaxEvents == 2

\* ---- program constants ----
InviteHours == 24
OpenHour == 9
CloseHour == 24
MondayDow == 1
CutoffDay == 5
CutoffHour == 20
NULL_TS == -1

Users == 1..MaxUsers
EventIds == 1..MaxEvents

\* the event is oversubscribed: one seat fewer than registered readers
Capacity == MaxUsers - 1
Procs == 1..MaxProcs
Reqs == 1..MaxReqs

At(day, hour) == day * 24 + hour

\* Saturday 8:00 PM, the documented end of automatic seat reassignment
Cutoff == At(CutoffDay, CutoffHour)

\* the instants the clock visits: Mon 9:00, Tue 9:00, Sat 18:00,
\* Sat 20:00 (cutoff), Sun 20:00
TimePoints ==
  {At(0, OpenHour), At(1, OpenHour), Cutoff - 2, Cutoff, Cutoff + InviteHours}

VARIABLES now, event, registrations, vip_list, insert_tx, waterfall,
          pendingCalls, calls, response, expire_job, emails

\* the tables with the rows of every event, for the operations that are
\* given an event id: events, registrations (table), the promote_next_user
\* transactions in flight (rpc), the INSERTs in flight (inserts) and the
\* event id the last request was made for (op_event); stuck holds the events
\* with a row no statement can currently update
VARIABLES events, table, rpc, inserts, op_event, stuck

cyclevars == <<events, table, rpc, inserts, op_event, stuck>>
eventvars == <<now, event, registrations, vip_list, insert_tx, waterfall,
               pendingCalls, calls, response, expire_job, emails>>

vars == <<now, event, registrations, vip_list, insert_tx, waterfall,
          pendingCalls, calls, response, expire_job, emails, cyclevars>>

NoTx == [user_id |-> 0]
Idle == [pc |-> "idle", row |-> 0]
NoJob == [pc |-> "idle", at |-> 0, returned |-> {}]
NoRpc == [pc |-> "idle", p_event_id |-> 0, event_id |-> 0, user_id |-> 0]
NoInsert == [event_id |-> 0, user_id |-> 0]

\* the other tables hold one event's rows only while the operations of that
\* event are studied on their own
OneEvent ==
  /\ events = [e \in EventIds |-> [status |-> "open", is_waterfall_active |-> FALSE]]
  /\ table = {}
  /\ rpc = [p \in Procs |-> NoRpc]
  /\ inserts = [q \in Reqs |-> NoInsert]
  /\ op_event = 0
  /\ stuck = {}

\* ---- queries over the registrations table ----
Row(u) == CHOOSE r \in registrations : r.user_id = u
Registered(u) == \E r \in registrations : r.user_id = u
StatusOf(u) == IF Registered(u) THEN Row(u).status ELSE "NONE"
Waiting == {r \in registrations : r.status = "WAITING"}
LockedRows == {waterfall[p].row : p \in {q \in Procs : waterfall[q].pc = "locked"}}

RECURSIVE MaxPosition(_)
MaxPosition(rows) ==
  IF rows = {} THEN 0
  ELSE LET r == CHOOSE x \in rows : TRUE
           m == MaxPosition(rows \ {r})
       IN IF r.queue_position > m THEN r.queue_position ELSE m

\* ORDER BY queue_position ASC LIMIT n over a set of rows
RECURSIVE FirstByPosition(_, _)
FirstByPosition(rows, n) ==
  IF n = 0 \/ rows = {} THEN {}
  ELSE LET r == CHOOSE x \in rows : \A y \in rows : x.queue_position <= y.queue_position
       IN {r} \cup FirstByPosition(rows \ {r}, n - 1)

\* ---- middleware: registration time gate ----
DayOfWeek(t) == ((t \div 24) + MondayDow) % 7
HourOfDay(t) == t % 24
RegistrationOpen(t) ==
  /\ DayOfWeek(t) = MondayDow
  /\ HourOfDay(t) >= OpenHour
  /\ HourOfDay(t) < CloseHour

\* ---- BEFORE INSERT triggers ----
assign_queue_position == MaxPosition(registrations) + 1

NoVipPromotion(u, t) ==
  [status |-> "WAITING", invited_at |-> NULL_TS, expires_at |-> NULL_TS]

auto_promote_vip(u, t) ==
  IF u \in vip_list
  THEN [status |-> "INVITED", invited_at |-> t, expires_at |-> t + InviteHours]
  ELSE [status |-> "WAITING", invited_at |-> NULL_TS, expires_at |-> NULL_TS]

NewRow(u, t) ==
  LET v == auto_promote_vip(u, t)
  IN [user_id |-> u, queue_position |-> assign_queue_position,
      status |-> v.status, invited_at |-> v.invited_at,
      expires_at |-> v.expires_at, responded_at |-> NULL_TS,
      is_manual_override |-> FALSE]

\* the outcome of the last request: an error code, or "OK"
ErrorCodes ==
  {"REGISTRATION_CLOSED", "ALREADY_REGISTERED", "CONFLICT", "ALREADY_ROLLED_OUT",
   "INVITATION_EXPIRED", "NO_CHANGE", "PAUSED", "QUEUE_EMPTY", "POLICY_VIOLATION",
   "INTERNAL_ERROR"}
Resp(op, code) == IF code \in ErrorCodes THEN code ELSE "OK"

\* the state after construction: the event is open, nobody has registered
InitEnroll ==
  /\ now = At(0, OpenHour)
  /\ event = [status |-> "open", is_waterfall_active |-> FALSE]
  /\ registrations = {}
  /\ vip_list = {}
  /\ insert_tx = [r \in Reqs |-> NoTx]
  /\ waterfall = [p \in Procs |-> Idle]
  /\ expire_job = [p \in Procs |-> NoJob]
  /\ emails = [u \in Users |-> 0]
  /\ OneEvent
  /\ pendingCalls = 0
  /\ calls = 0
  /\ response = "OK"

\* the states registration leaves behind on Monday: user u registered u-th;
\* a user is a plain reader, a reader put on the VIP list after registering
\* (still WAITING), or a VIP invited by the trigger at registration
Kinds == {"reader", "late_vip", "vip"}

RegisteredRow(u, kind, t) ==
  [user_id |-> u, queue_position |-> u,
   status |-> IF kind = "vip" THEN "INVITED" ELSE "WAITING",
   invited_at |-> IF kind = "vip" THEN t ELSE NULL_TS,
   expires_at |-> IF kind = "vip" THEN t + InviteHours ELSE NULL_TS,
   responded_at |-> NULL_TS, is_manual_override |-> FALSE]

Init ==
  /\ now = At(0, OpenHour)
  /\ event = [status |-> "open", is_waterfall_active |-> FALSE]
  /\ \E kind \in [Users -> Kinds] :
       /\ registrations = {RegisteredRow(u, kind[u], now) : u \in Users}
       /\ vip_list = {u \in Users : kind[u] # "reader"}
  /\ insert_tx = [r \in Reqs |-> NoTx]
  /\ waterfall = [p \in Procs |-> Idle]
  /\ expire_job = [p \in Procs |-> NoJob]
  /\ emails = [u \in Users |-> 0]
  /\ OneEvent
  /\ pendingCalls = 0
  /\ calls = 0
  /\ response = "OK"

\* ---- the clock ----
Quiescent ==
  /\ \A q \in Reqs : insert_tx[q] = NoTx
  /\ \A p \in Procs : waterfall[p] = Idle
  /\ \A p \in Procs : expire_job[p] = NoJob

Tick ==
  /\ Quiescent
  /\ \E t \in TimePoints : t > now /\ now' = t
  /\ response' = Resp("tick", "OK")
  /\ UNCHANGED <<event, registrations, vip_list, insert_tx, waterfall, pendingCalls, calls, expire_job, emails, cyclevars>>

\* ---- POST /api/events/register ----
EnrollBeginNoDuplicateCheck(q, u) ==
  /\ insert_tx[q] = NoTx
  /\ IF ~RegistrationOpen(now)
     THEN /\ response' = Resp("register", "REGISTRATION_CLOSED")
          /\ UNCHANGED insert_tx
     ELSE /\ insert_tx' = [insert_tx EXCEPT ![q] = NewRow(u, now)]
          /\ response' = Resp("register", "INSERTING")
  /\ UNCHANGED <<now, event, registrations, vip_list, waterfall, pendingCalls, calls, expire_job, emails, cyclevars>>

EnrollBegin(q, u) ==
  /\ insert_tx[q] = NoTx
  /\ IF ~RegistrationOpen(now)
     THEN /\ response' = Resp("register", "REGISTRATION_CLOSED")
          /\ UNCHANGED insert_tx
     ELSE IF Registered(u)
     THEN /\ response' = Resp("register", "ALREADY_REGISTERED")
          /\ UNCHANGED insert_tx
     ELSE /\ insert_tx' = [insert_tx EXCEPT ![q] = NewRow(u, now)]
          /\ response' = Resp("register", "INSERTING")
  /\ UNCHANGED <<now, event, registrations, vip_list, waterfall, pendingCalls, calls, expire_job, emails, cyclevars>>

\* UNIQUE(event_id, user_id) and UNIQUE(event_id, queue_position)
UniqueViolationUserOnly(new) ==
  \E r \in registrations : r.user_id = new.user_id

UniqueViolation(new) ==
  \E r \in registrations :
    \/ r.user_id = new.user_id
    \/ r.queue_position = new.queue_position

\* the INSERT reaches the unique indexes and commits
EnrollCommit(q) ==
  /\ insert_tx[q] # NoTx
  /\ LET new == insert_tx[q]
     IN IF UniqueViolation(new)
        THEN /\ response' = Resp("register", "CONFLICT")
             /\ UNCHANGED registrations
        ELSE /\ registrations' = registrations \cup {new}
             /\ response' = Resp("register", "CREATED")
  /\ insert_tx' = [insert_tx EXCEPT ![q] = NoTx]
  /\ UNCHANGED <<now, event, vip_list, waterfall, pendingCalls, calls, expire_job, emails, cyclevars>>

\* ---- POST /api/admin/vips, DELETE /api/admin/vips/:id ----
AddVip(u) ==
  /\ u \notin vip_list
  /\ vip_list' = vip_list \cup {u}
  /\ response' = Resp("vip_add", "CREATED")
  /\ UNCHANGED <<now, event, registrations, insert_tx, waterfall, pendingCalls, calls, expire_job, emails, cyclevars>>

RemoveVip(u) ==
  /\ u \in vip_list
  /\ vip_list' = vip_list \ {u}
  /\ response' = Resp("vip_remove", "OK")
  /\ UNCHANGED <<now, event, registrations, insert_tx, waterfall, pendingCalls, calls, expire_job, emails, cyclevars>>

\* ---- invitation emails (Resend) ----
UserIds(rows) == {r.user_id : r \in rows}

SendInvite(us) == [u \in Users |-> IF u \in us THEN emails[u] + 1 ELSE emails[u]]

\* ---- stored procedure batch_rollout(p_event_id, p_batch_size) ----
BatchTargets(n) == FirstByPosition(Waiting, n)

InviteClamped(r, t) ==
  [r EXCEPT !.status = "INVITED", !.invited_at = t,
            !.expires_at = IF t + InviteHours > Cutoff THEN Cutoff ELSE t + InviteHours]

Invite(r, t) ==
  [r EXCEPT !.status = "INVITED", !.invited_at = t, !.expires_at = t + InviteHours]

batch_rollout(n, t) ==
  LET promoted == BatchTargets(n)
  IN (registrations \ promoted) \cup {Invite(r, t) : r \in promoted}

\* ---- POST /api/admin/events/:id/rollout ----
RolloutNeverRejected == FALSE

AlreadyRolledOut == event.status \in {"rolled_out", "completed"}

Rollout ==
  /\ IF AlreadyRolledOut
     THEN /\ response' = Resp("rollout", "ALREADY_ROLLED_OUT")
          /\ UNCHANGED <<event, registrations, emails>>
     ELSE \* the UPDATE waits for rows locked by an in-flight promotion
          /\ \A r \in BatchTargets(Capacity) : r.user_id \notin LockedRows
          /\ registrations' = batch_rollout(Capacity, now)
          /\ event' = [status |-> "rolled_out", is_waterfall_active |-> TRUE]
          \* one invitation email is queued for each returned user
          /\ emails' = SendInvite(UserIds(BatchTargets(Capacity)))
          /\ response' = Resp("rollout", "OK")
  /\ UNCHANGED <<now, vip_list, insert_tx, waterfall, pendingCalls, calls, expire_job, cyclevars>>

\* ---- the event is finished: events.status becomes 'completed' ----
CloseCycle ==
  /\ event.status = "rolled_out"
  /\ event' = [event EXCEPT !.status = "completed"]
  /\ response' = Resp("close", "OK")
  /\ UNCHANGED <<now, registrations, vip_list, insert_tx, waterfall, pendingCalls, calls, expire_job, emails, cyclevars>>

\* ---- POST /api/admin/events/:id/kill-switch ----
KillSwitchCancels(active) ==
  /\ event' = [status |-> IF active THEN event.status ELSE "cancelled",
               is_waterfall_active |-> active]
  /\ response' = Resp("kill_switch", "OK")
  /\ UNCHANGED <<now, registrations, vip_list, insert_tx, waterfall, pendingCalls, calls, expire_job, emails, cyclevars>>

KillSwitch(active) ==
  /\ event' = [event EXCEPT !.is_waterfall_active = active]
  /\ response' = Resp("kill_switch", "OK")
  /\ UNCHANGED <<now, registrations, vip_list, insert_tx, waterfall, pendingCalls, calls, expire_job, emails, cyclevars>>

\* ---- POST /api/events/respond ----
InvitationExpired(r, t) == t >= r.expires_at

SetStatus(r, st, t) == [r EXCEPT !.status = st, !.responded_at = t]

\* the UPDATE without "AND status = 'INVITED'"
RespondEveryClick(u, decision) ==
  /\ Registered(u)
  /\ Row(u).expires_at # NULL_TS
  /\ LET r == Row(u)
     IN IF InvitationExpired(r, now)
        THEN /\ response' = Resp("respond", "INVITATION_EXPIRED")
             /\ UNCHANGED <<registrations, pendingCalls, calls>>
        ELSE IF decision = "confirm"
        THEN /\ registrations' = (registrations \ {r}) \cup {SetStatus(r, "CONFIRMED", now)}
             /\ response' = Resp("respond", "CONFIRMED")
             /\ UNCHANGED <<pendingCalls, calls>>
        ELSE /\ registrations' = (registrations \ {r}) \cup {SetStatus(r, "DECLINED", now)}
             /\ pendingCalls' = pendingCalls + 1
             /\ calls' = calls + 1
             /\ response' = Resp("respond", "DECLINED")
  /\ UNCHANGED <<now, event, vip_list, insert_tx, waterfall, expire_job, emails, cyclevars>>

RespondNoExpiryCheck(u, decision) ==
  /\ Registered(u)
  /\ Row(u).expires_at # NULL_TS
  /\ LET r == Row(u)
     IN IF r.status # "INVITED"
        THEN /\ response' = Resp("respond", "NO_CHANGE")
             /\ UNCHANGED <<registrations, pendingCalls, calls>>
        ELSE IF decision = "confirm"
        THEN /\ registrations' = (registrations \ {r}) \cup {SetStatus(r, "CONFIRMED", now)}
             /\ response' = Resp("respond", "CONFIRMED")
             /\ UNCHANGED <<pendingCalls, calls>>
        ELSE /\ registrations' = (registrations \ {r}) \cup {SetStatus(r, "DECLINED", now)}
             /\ pendingCalls' = pendingCalls + 1
             /\ calls' = calls + 1
             /\ response' = Resp("respond", "DECLINED")
  /\ UNCHANGED <<now, event, vip_list, insert_tx, waterfall, expire_job, emails, cyclevars>>

Respond(u, decision) ==
  /\ Registered(u)
  /\ Row(u).expires_at # NULL_TS
  /\ LET r == Row(u)
     IN IF InvitationExpired(r, now)
        THEN /\ response' = Resp("respond", "INVITATION_EXPIRED")
             /\ UNCHANGED <<registrations, pendingCalls, calls>>
        ELSE IF r.status # "INVITED"
        THEN /\ response' = Resp("respond", "NO_CHANGE")
             /\ UNCHANGED <<registrations, pendingCalls, calls>>
        ELSE IF decision = "confirm"
        THEN /\ registrations' = (registrations \ {r}) \cup {SetStatus(r, "CONFIRMED", now)}
             /\ response' = Resp("respond", "CONFIRMED")
             /\ UNCHANGED <<pendingCalls, calls>>
        ELSE /\ registrations' = (registrations \ {r}) \cup {SetStatus(r, "DECLINED", now)}
             /\ pendingCalls' = pendingCalls + 1
             /\ calls' = calls + 1
             /\ response' = Resp("respond", "DECLINED")
  /\ UNCHANGED <<now, event, vip_list, insert_tx, waterfall, expire_job, emails, cyclevars>>

\* ---- "Hero" cancellation: a confirmed reader releases the seat ----
HeroCancelSilent(u) ==
  /\ Registered(u)
  /\ Row(u).status = "CONFIRMED"
  /\ now < Cutoff
  /\ registrations' = (registrations \ {Row(u)}) \cup {SetStatus(Row(u), "DECLINED", now)}
  /\ response' = Resp("hero_cancel", "DECLINED")
  /\ UNCHANGED <<now, event, vip_list, insert_tx, waterfall, pendingCalls, calls, expire_job, emails, cyclevars>>

HeroCancel(u) ==
  /\ Registered(u)
  /\ Row(u).status = "CONFIRMED"
  /\ now < Cutoff
  /\ registrations' = (registrations \ {Row(u)}) \cup {SetStatus(Row(u), "DECLINED", now)}
  /\ pendingCalls' = pendingCalls + 1
  /\ calls' = calls + 1
  /\ response' = Resp("hero_cancel", "DECLINED")
  /\ UNCHANGED <<now, event, vip_list, insert_tx, waterfall, expire_job, emails, cyclevars>>

\* ---- POST /api/events/attend: "I Am Here" on the event day ----
EventDow == 0

EventDay(t) == DayOfWeek(t) = EventDow

Attend(u) ==
  /\ Registered(u)
  /\ Row(u).status = "CONFIRMED"
  /\ EventDay(now)
  /\ registrations' = (registrations \ {Row(u)}) \cup {[Row(u) EXCEPT !.status = "ATTENDED"]}
  /\ response' = Resp("attend", "ATTENDED")
  /\ UNCHANGED <<now, event, vip_list, insert_tx, waterfall, pendingCalls, calls, expire_job, emails, cyclevars>>

\* ---- RLS policy registrations_update_own ----
\* a signed-in reader updates the own row through the Supabase client; the
\* policy's WITH CHECK looks at the new status only
UpdateOwnCheck(st) == st \in {"CONFIRMED", "DECLINED", "ATTENDED"}

UpdateOwn(u, st) ==
  /\ Registered(u)
  /\ IF UpdateOwnCheck(st)
     THEN /\ registrations' = (registrations \ {Row(u)}) \cup {[Row(u) EXCEPT !.status = st]}
          /\ response' = Resp("update_own", "UPDATED")
     ELSE /\ response' = Resp("update_own", "POLICY_VIOLATION")
          /\ UNCHANGED registrations
  /\ UNCHANGED <<now, event, vip_list, insert_tx, waterfall, pendingCalls, calls, expire_job, emails, cyclevars>>

\* ---- cron job expire-old-invitations ----
ExpirableWhileActive(t) ==
  {r \in registrations :
     r.status = "INVITED" /\ r.expires_at < t /\ event.is_waterfall_active}

Expirable(t) == {r \in registrations : r.status = "INVITED" /\ r.expires_at < t}

\* the waterfall function is called once for each expired registration
WaterfallCallsPerEvent(old) == IF old = {} THEN 0 ELSE 1

WaterfallCallsFor(old) == Cardinality(old)

Sweep ==
  /\ LET old == Expirable(now)
     IN /\ registrations' = (registrations \ old) \cup {[r EXCEPT !.status = "EXPIRED"] : r \in old}
        /\ pendingCalls' = pendingCalls + WaterfallCallsFor(old)
        /\ calls' = calls + WaterfallCallsFor(old)
  /\ response' = Resp("expire_invites", "OK")
  /\ UNCHANGED <<now, event, vip_list, insert_tx, waterfall, expire_job, emails, cyclevars>>

\* ---- the same job, row by row ----
\* The UPDATE reads NOW() once, visits the rows in any order, re-checks its
\* WHERE clause on each row under the row's lock, and returns the rows it
\* changed; concurrent respond UPDATEs and other runs of the job interleave
\* between two rows.
ExpireMatchesAnyStatus(r, t) == r.expires_at # NULL_TS /\ r.expires_at < t

ExpireMatches(r, t) == r \in Expirable(t)

ExpireBegin(p) ==
  /\ expire_job[p].pc = "idle"
  /\ expire_job' = [expire_job EXCEPT ![p] = [pc |-> "update", at |-> now, returned |-> {}]]
  /\ response' = Resp("expire_invites", "STARTED")
  /\ UNCHANGED <<now, event, registrations, vip_list, insert_tx, waterfall, pendingCalls, calls, emails, cyclevars>>

ExpireRow(p, u) ==
  /\ expire_job[p].pc = "update"
  /\ Registered(u)
  /\ u \notin expire_job[p].returned
  /\ ExpireMatches(Row(u), expire_job[p].at)
  /\ registrations' = (registrations \ {Row(u)}) \cup {[Row(u) EXCEPT !.status = "EXPIRED"]}
  /\ expire_job' = [expire_job EXCEPT ![p].returned = @ \cup {u}]
  /\ response' = Resp("expire_invites", "ROW")
  /\ UNCHANGED <<now, event, vip_list, insert_tx, waterfall, pendingCalls, calls, emails, cyclevars>>

\* every row has been visited: one waterfall call for each returned row
ExpireEnd(p) ==
  /\ expire_job[p].pc = "update"
  /\ \A r \in registrations :
       r.user_id \in expire_job[p].returned \/ ~ExpireMatches(r, expire_job[p].at)
  /\ pendingCalls' = pendingCalls + WaterfallCallsFor(expire_job[p].returned)
  /\ calls' = calls + WaterfallCallsFor(expire_job[p].returned)
  /\ expire_job' = [expire_job EXCEPT ![p] = NoJob]
  /\ response' = Resp("expire_invites", "OK")
  /\ UNCHANGED <<now, event, registrations, vip_list, insert_tx, waterfall, emails, cyclevars>>

\* ---- edge function waterfall ----
\* 1. receive the request and check the kill switch
WaterfallPausedNever == FALSE

WaterfallPaused == ~event.is_waterfall_active

WaterfallCheck(p) ==
  /\ waterfall[p].pc = "idle"
  /\ pendingCalls > 0
  /\ pendingCalls' = pendingCalls - 1
  /\ IF WaterfallPaused
     THEN /\ response' = Resp("waterfall", "PAUSED")
          /\ UNCHANGED waterfall
     ELSE /\ waterfall' = [waterfall EXCEPT ![p] = [pc |-> "rpc", row |-> 0]]
          /\ response' = Resp("waterfall", "CHECKED")
  /\ UNCHANGED <<now, event, registrations, vip_list, insert_tx, calls, expire_job, emails, cyclevars>>

\* 2. promote_next_user: SELECT ... ORDER BY queue_position LIMIT 1
\*    FOR UPDATE SKIP LOCKED
NextWaitingIgnoringLocks == FirstByPosition(Waiting, 1)

NextWaiting == FirstByPosition({r \in Waiting : r.user_id \notin LockedRows}, 1)

WaterfallSelect(p) ==
  /\ waterfall[p].pc = "rpc"
  /\ IF NextWaiting = {}
     THEN /\ waterfall' = [waterfall EXCEPT ![p] = Idle]
          /\ response' = Resp("waterfall", "QUEUE_EMPTY")
     ELSE /\ waterfall' = [waterfall EXCEPT ![p] =
                 [pc |-> "locked", row |-> (CHOOSE r \in NextWaiting : TRUE).user_id]]
          /\ response' = Resp("waterfall", "LOCKED")
  /\ UNCHANGED <<now, event, registrations, vip_list, insert_tx, pendingCalls, calls, expire_job, emails, cyclevars>>

\* 3. promote_next_user: UPDATE ... WHERE id = v_registration.id, commit
WaterfallUpdate(p) ==
  /\ waterfall[p].pc = "locked"
  /\ registrations' = (registrations \ {Row(waterfall[p].row)})
                        \cup {Invite(Row(waterfall[p].row), now)}
  \* 4. the invitation email goes to the user the procedure returned
  /\ emails' = SendInvite({waterfall[p].row})
  /\ waterfall' = [waterfall EXCEPT ![p] = Idle]
  /\ response' = Resp("waterfall", "PROMOTED")
  /\ UNCHANGED <<now, event, vip_list, insert_tx, pendingCalls, calls, expire_job, cyclevars>>

Next ==
  \/ Tick
  \/ Rollout
  \/ \E a \in BOOLEAN : KillSwitch(a)
  \/ \E u \in Users, d \in {"confirm", "decline"} : Respond(u, d)
  \/ \E u \in Users : HeroCancel(u)
  \/ Sweep
  \/ \E p \in Procs : WaterfallCheck(p)
  \/ \E p \in Procs : WaterfallSelect(p)
  \/ \E p \in Procs : WaterfallUpdate(p)

Spec == Init /\ [][Next]_vars

NextEnroll ==
  \/ Tick
  \/ \E q \in Reqs, u \in Users : EnrollBegin(q, u)
  \/ \E q \in Reqs : EnrollCommit(q)
  \/ \E u \in Users : AddVip(u)
  \/ \E u \in Users : RemoveVip(u)

SpecEnroll == InitEnroll /\ [][NextEnroll]_vars

\* the registered readers act on their own rows: through the API routes and
\* directly through the Supabase client, as far as the RLS policy allows
Statuses == {"WAITING", "INVITED", "CONFIRMED", "DECLINED", "EXPIRED", "ATTENDED"}

NextPolicy ==
  \/ Tick
  \/ Rollout
  \/ \E u \in Users, d \in {"confirm", "decline"} : Respond(u, d)
  \/ \E u \in Users : Attend(u)
  \/ Sweep
  \/ \E u \in Users, st \in Statuses : UpdateOwn(u, st)

SpecPolicy == Init /\ [][NextPolicy]_vars

\* every invoked waterfall function runs to its end, and the cron job keeps
\* running
Fairness ==
  /\ WF_vars(Sweep)
  /\ WF_vars(\E p \in Procs : WaterfallCheck(p))
  /\ WF_vars(\E p \in Procs : WaterfallSelect(p))
  /\ WF_vars(\E p \in Procs : WaterfallUpdate(p))

SpecFair == Spec /\ Fairness

\* the week of an event up to and after its completion
NextClose ==
  \/ Next
  \/ CloseCycle
  \/ \E u \in Users : Attend(u)

SpecClose == Init /\ [][NextClose]_vars

\* runs of the expiry job interleaved with each other and with responses
NextSweep ==
  \/ Tick
  \/ Rollout
  \/ \E u \in Users, d \in {"confirm", "decline"} : Respond(u, d)
  \/ \E p \in Procs : ExpireBegin(p)
  \/ \E p \in Procs, u \in Users : ExpireRow(p, u)
  \/ \E p \in Procs : ExpireEnd(p)

SpecSweep == Init /\ [][NextSweep]_vars

\* ---- the same operations, given an event id, over the rows of all events ----
OfEvent(e) == {r \in table : r.event_id = e}

\* WHERE r.event_id = p_event_id AND r.status = 'WAITING'
WaitingAnyEvent(e) == {r \in table : r.status = "WAITING"}

WaitingOf(e) == {r \in OfEvent(e) : r.status = "WAITING"}

\* the registrations row a promote_next_user transaction holds FOR UPDATE
RowLocked(r) ==
  \E p \in Procs : /\ rpc[p].pc = "locked"
                    /\ rpc[p].event_id = r.event_id
                    /\ rpc[p].user_id = r.user_id

\* FOR UPDATE without OF also locks the joined auth.users and profiles rows
UserLocked(u) ==
  \E p \in Procs : rpc[p].pc = "locked" /\ rpc[p].user_id = u

\* BEFORE INSERT triggers, with MAX(queue_position) WHERE event_id = NEW.event_id
TableRow(e, u, t) ==
  LET v == auto_promote_vip(u, t)
  IN [event_id |-> e, user_id |-> u,
      queue_position |-> MaxPosition(OfEvent(e)) + 1,
      status |-> v.status, invited_at |-> v.invited_at,
      expires_at |-> v.expires_at, responded_at |-> NULL_TS,
      is_manual_override |-> FALSE]

\* POST /api/events/register for event e
RegisterFor(q, e, u) ==
  /\ inserts[q] = NoInsert
  /\ RegistrationOpen(now)
  /\ IF \E r \in OfEvent(e) : r.user_id = u
     THEN UNCHANGED inserts
     ELSE inserts' = [inserts EXCEPT ![q] = [event_id |-> e, user_id |-> u]]
  /\ op_event' = e
  /\ UNCHANGED <<events, table, rpc, stuck, eventvars>>

\* the INSERT: its foreign-key check on auth.users (user_id REFERENCES
\* auth.users) waits for a FOR UPDATE lock on the user's row; then the
\* unique indexes decide
RegisterInsert(q) ==
  /\ inserts[q] # NoInsert
  /\ ~UserLocked(inserts[q].user_id)
  /\ LET new == TableRow(inserts[q].event_id, inserts[q].user_id, now)
     IN IF \E r \in OfEvent(new.event_id) :
             r.user_id = new.user_id \/ r.queue_position = new.queue_position
        THEN UNCHANGED table
        ELSE table' = table \cup {new}
  /\ op_event' = inserts[q].event_id
  /\ inserts' = [inserts EXCEPT ![q] = NoInsert]
  /\ UNCHANGED <<events, rpc, stuck, eventvars>>

\* POST /api/admin/events/:id/rollout -> batch_rollout(e, p_batch_size)
RolloutOf(e) ==
  /\ IF events[e].status # "open"
     THEN UNCHANGED <<events, table>>
     ELSE LET promoted == FirstByPosition(WaitingOf(e), Capacity)
          IN /\ \A r \in promoted : ~RowLocked(r)
             /\ table' = (table \ promoted) \cup {Invite(r, now) : r \in promoted}
             /\ events' = [events EXCEPT ![e] =
                             [status |-> "rolled_out", is_waterfall_active |-> TRUE]]
  /\ op_event' = e
  /\ UNCHANGED <<rpc, inserts, stuck, eventvars>>

\* POST /api/admin/events/:id/kill-switch
KillSwitchOf(e, active) ==
  /\ events' = [events EXCEPT ![e].is_waterfall_active = active]
  /\ op_event' = e
  /\ UNCHANGED <<table, rpc, inserts, stuck, eventvars>>

\* waterfall(eventId): kill-switch check, then promote_next_user(e) up to its
\* SELECT ... FOR UPDATE SKIP LOCKED
PromoteSelect(p, e) ==
  /\ rpc[p] = NoRpc
  /\ LET free == {r \in WaitingOf(e) : ~RowLocked(r) /\ ~UserLocked(r.user_id)}
         found == FirstByPosition(free, 1)
     IN IF ~events[e].is_waterfall_active \/ found = {}
        THEN UNCHANGED rpc
        ELSE LET r == CHOOSE x \in found : TRUE
             IN rpc' = [rpc EXCEPT ![p] =
                          [pc |-> "locked", p_event_id |-> e,
                           event_id |-> r.event_id, user_id |-> r.user_id]]
  /\ op_event' = e
  /\ UNCHANGED <<events, table, inserts, stuck, eventvars>>

\* promote_next_user: UPDATE ... WHERE id = v_registration.id, commit
PromoteUpdate(p) ==
  /\ rpc[p].pc = "locked"
  /\ LET r == CHOOSE x \in table :
                x.event_id = rpc[p].event_id /\ x.user_id = rpc[p].user_id
     IN table' = (table \ {r}) \cup {Invite(r, now)}
  /\ op_event' = rpc[p].p_event_id
  /\ rpc' = [rpc EXCEPT ![p] = NoRpc]
  /\ UNCHANGED <<events, inserts, stuck, eventvars>>

NextCycles ==
  \/ \E q \in Reqs, e \in EventIds, u \in Users : RegisterFor(q, e, u)
  \/ \E q \in Reqs : RegisterInsert(q)
  \/ \E e \in EventIds : RolloutOf(e)
  \/ \E e \in EventIds, a \in BOOLEAN : KillSwitchOf(e, a)
  \/ \E p \in Procs, e \in EventIds : PromoteSelect(p, e)
  \/ \E p \in Procs : PromoteUpdate(p)

SpecCycles == InitEnroll /\ [][NextCycles]_vars

\* N waterfall invocations arrive at once for an event with K readers waiting
InitPromote ==
  /\ now = At(1, OpenHour)
  /\ event = [status |-> "rolled_out", is_waterfall_active |-> TRUE]
  /\ \E k \in 0..MaxUsers : \E kind \in [1..k -> {"reader", "late_vip"}] :
       /\ registrations = {RegisteredRow(u, kind[u], now) : u \in 1..k}
       /\ vip_list = {u \in 1..k : kind[u] = "late_vip"}
  /\ insert_tx = [r \in Reqs |-> NoTx]
  /\ waterfall = [p \in Procs |-> Idle]
  /\ expire_job = [p \in Procs |-> NoJob]
  /\ emails = [u \in Users |-> 0]
  /\ OneEvent
  /\ pendingCalls \in 0..MaxCalls
  /\ calls = pendingCalls
  /\ response = "OK"

NextPromote ==
  \/ \E p \in Procs : WaterfallCheck(p)
  \/ \E p \in Procs : WaterfallSelect(p)
  \/ \E p \in Procs : WaterfallUpdate(p)

SpecPromote == InitPromote /\ [][NextPromote]_vars

\* ---- vocabulary of the properties ----
Min(a, b) == IF a < b THEN a ELSE b
Invited == {r \in registrations : r.status = "INVITED"}
Positions == {r.queue_position : r \in registrations}
PriorityClass(r) == r.user_id \in vip_list
ClassRank(r) == IF PriorityClass(r) THEN 0 ELSE 1
RanksBefore(x, y) ==
  \/ ClassRank(x) < ClassRank(y)
  \/ ClassRank(x) = ClassRank(y) /\ x.queue_position <= y.queue_position

\* the first n rows by ranking key (priority class, then queue position)
RECURSIVE FirstByRanking(_, _)
FirstByRanking(rows, n) ==
  IF n = 0 \/ rows = {} THEN {}
  ELSE LET r == CHOOSE x \in rows : \A y \in rows : RanksBefore(x, y)
       IN {r} \cup FirstByRanking(rows \ {r}, n - 1)

PromoteDone == pendingCalls = 0 /\ \A p \in Procs : waterfall[p] = Idle

\* C1: once N concurrent waterfall invocations on an event with K waiting
\* readers have all finished, the invited readers are exactly the first
\* min(K, N) by ranking key (priority class first, then queue position).
C1_PromotedAreFirstByRanking ==
  PromoteDone =>
    UserIds(Invited) =
      UserIds(FirstByRanking(registrations, Min(Cardinality(registrations), calls)))

\* C2: the queue positions of an event are exactly 1..n without gap or
\* duplicate, and every inserted registration gets a position above all
\* positions assigned before it.
PositionsDense ==
  /\ Positions = 1..Cardinality(registrations)
  /\ \A r1, r2 \in registrations :
       r1.queue_position = r2.queue_position => r1 = r2

C2_DensePositions ==
  /\ []PositionsDense
  /\ [][\A r \in registrations' \ registrations :
          r.queue_position = MaxPosition(registrations) + 1]_vars

\* two concurrent registrations raced for one position and both readers
\* ended up registered
C2_Witness ==
  /\ response = "CONFLICT"
  /\ Cardinality(registrations) >= 2
\* ---- transitions of one step ----
Became(u, from, to) == StatusOf(u) = from /\ StatusOf(u)' = to
NewlyVacated ==
  {u \in Users : /\ StatusOf(u) \notin {"DECLINED", "EXPIRED"}
                 /\ StatusOf(u)' \in {"DECLINED", "EXPIRED"}}
Automated == event.is_waterfall_active /\ now < Cutoff
SeatHolders ==
  {r \in registrations : /\ r.status \in {"INVITED", "CONFIRMED", "ATTENDED"}
                         /\ ~r.is_manual_override}
CompletesPromotion(u) ==
  \E p \in Procs : /\ waterfall[p] = [pc |-> "locked", row |-> u]
                    /\ waterfall'[p] = Idle

C4_SeatsWithinCapacity == Cardinality(SeatHolders) <= Capacity

\* C5: no normal-class registration is promoted WAITING -> INVITED in a step
\* that leaves a priority-class registration WAITING.
C5_PriorityFirst ==
  [][\A u \in Users \ vip_list :
       Became(u, "WAITING", "INVITED") =>
         ~\E v \in vip_list : Became(v, "WAITING", "WAITING")]_vars

C7_NoInviteAfterCutoff ==
  [][now >= Cutoff =>
       /\ \A u \in Users : ~Became(u, "WAITING", "INVITED")
       /\ UserIds(SeatHolders)' \subseteq UserIds(SeatHolders)]_vars

\* C8: every WAITING -> INVITED transition at time now sets the response
\* deadline to min(now + 24h, cutoff).
C8_DeadlineClampedToCutoff ==
  [][\A u \in Users :
       Became(u, "WAITING", "INVITED") =>
         Row(u)'.expires_at = Min(now + InviteHours, Cutoff)]_vars

\* C9: a response at or after the deadline never confirms an INVITED
\* registration, and a request answered INVITATION_EXPIRED changes no
\* registration and triggers no promotion.
C9_NoConfirmAfterDeadline ==
  [][/\ \A u \in Users :
          (StatusOf(u) = "INVITED" /\ now >= Row(u).expires_at) =>
            StatusOf(u)' # "CONFIRMED"
     /\ response' = "INVITATION_EXPIRED" =>
          UNCHANGED <<registrations, pendingCalls, calls>>]_vars

\* a response was refused as expired while the sweeper had not yet marked
\* the registration EXPIRED
C9_Witness ==
  /\ response = "INVITATION_EXPIRED"
  /\ \E r \in registrations : r.status = "INVITED" /\ now >= r.expires_at

\* C10: a rollout answered ALREADY_ROLLED_OUT changes no registration and no
\* event field, and once the event is rolled out no rollout promotes again:
\* every later WAITING -> INVITED transition is a single waterfall promotion.
C10_RolloutOnce ==
  [][/\ response' = "ALREADY_ROLLED_OUT" =>
          event.status = "rolled_out" /\ UNCHANGED <<registrations, event>>
     /\ event.status = "rolled_out" =>
          /\ event'.status = "rolled_out"
          /\ \A u \in Users : Became(u, "WAITING", "INVITED") => CompletesPromotion(u)]_vars

\* a second rollout was refused although a reader was still waiting
C10_Witness ==
  /\ response = "ALREADY_ROLLED_OUT"
  /\ Waiting # {}

\* C11: the rollout of an open event with capacity C invites, in ranking-key
\* order (priority class first, then queue position), exactly C minus the
\* number of priority-class registrations already holding a seat (or every
\* waiting registration if there are fewer); every other one keeps WAITING.
RolloutStep == event.status = "open" /\ event'.status = "rolled_out"
PrioritySeats == {r \in SeatHolders : PriorityClass(r)}
RolloutQuota ==
  IF Capacity > Cardinality(PrioritySeats)
  THEN Capacity - Cardinality(PrioritySeats) ELSE 0

C11_RolloutFillsCapacityByRanking ==
  [][RolloutStep =>
       {u \in Users : Became(u, "WAITING", "INVITED")} =
         UserIds(FirstByRanking(Waiting, RolloutQuota))]_vars

GuardedTransition(u, from, to) ==
  \/ /\ from = "WAITING" /\ to = "INVITED"
     /\ now < Cutoff /\ event'.is_waterfall_active
  \/ /\ from = "INVITED" /\ to = "CONFIRMED"
     /\ now < Row(u).expires_at
  \/ /\ from = "INVITED" /\ to = "DECLINED"
     /\ now < Row(u).expires_at \/ now < Cutoff
  \/ /\ from = "INVITED" /\ to = "EXPIRED"
     /\ now >= Row(u).expires_at
  \/ /\ from = "CONFIRMED" /\ to = "DECLINED"
     /\ now < Cutoff
  \/ /\ from = "CONFIRMED" /\ to = "ATTENDED"
     /\ EventDay(now)

C13_OnlyGuardedTransitions ==
  [][/\ \A u \in Users :
          StatusOf(u)' # StatusOf(u) =>
            GuardedTransition(u, StatusOf(u), StatusOf(u)')
     /\ response' \in {"NO_CHANGE", "INVITATION_EXPIRED", "POLICY_VIOLATION"} =>
          UNCHANGED <<registrations, pendingCalls, calls>>]_vars

\* ---- repeated requests ----
Decisions == {"confirm", "decline"}
Repeats(u, d) ==
  \/ d = "confirm" /\ StatusOf(u) = "CONFIRMED"
  \/ d = "decline" /\ StatusOf(u) = "DECLINED"

OnePerUser ==
  \A r1, r2 \in registrations : r1.user_id = r2.user_id => r1 = r2

Returned == UNION {expire_job[p].returned : p \in Procs}
Vacated == {r \in registrations : r.status \in {"DECLINED", "EXPIRED"}}

C17_NoExpiryWhilePaused ==
  [][~event.is_waterfall_active =>
       \A u \in Users : ~Became(u, "INVITED", "EXPIRED")]_vars

\* C18: under fair scheduling, while automation is enabled and the cutoff
\* has not passed, a rolled-out event with a vacant seat and a waiting
\* registration does not stay that way: a waiting registration is eventually
\* invited (until the seats are filled or nobody is waiting).
Vacancy == event.status = "rolled_out" /\ Cardinality(SeatHolders) < Capacity
Unfilled == Automated /\ Vacancy /\ Waiting # {}

C18_VacancyEventuallyFilled == Unfilled ~> ~Unfilled

\* C20: once the event is completed, no operation (respond, attend, waterfall
\* promotion, expiry job, registration) changes the status or a timestamp of
\* any of its registrations or adds a registration.
C20_CompletedIsFrozen ==
  [][event.status = "completed" => registrations' = registrations]_vars

\* C19: an operation requested for one event never changes a registration
\* (status, timestamps, queue position) of another event nor another event's
\* status or kill switch, and an operation of one event never has to wait
\* for a lock taken by an operation of another event.
C19_EventsIsolated ==
  /\ [][\A e \in EventIds :
          op_event' # e => OfEvent(e)' = OfEvent(e) /\ events'[e] = events[e]]_vars
  /\ [](\A q \in Reqs, p \in Procs :
          (/\ inserts[q] # NoInsert
           /\ rpc[p].pc = "locked"
           /\ rpc[p].user_id = inserts[q].user_id) =>
            rpc[p].p_event_id = inserts[q].event_id)

\* C21: at or after the cutoff no registration is released: no INVITED or
\* CONFIRMED registration becomes DECLINED, and a decline requested then
\* triggers no waterfall invocation.
C21_NoDeclineAfterCutoff ==
  [][now >= Cutoff =>
       /\ \A u \in Users : StatusOf(u)' = "DECLINED" => StatusOf(u) = "DECLINED"
       /\ \A u \in Users :
            (Respond(u, "decline") \/ HeroCancel(u)) => UNCHANGED <<pendingCalls, calls>>]_vars

C23_ContentionNeverDropsPromotion ==
  /\ [][\A p \in Procs, e \in EventIds :
          (/\ PromoteSelect(p, e)
           /\ events[e].is_waterfall_active
           /\ rpc'[p].pc # "locked") =>
            \A r \in WaitingOf(e) : RowLocked(r)]_vars
  /\ [](\A p \in Procs : rpc[p].pc = "locked" => ENABLED PromoteUpdate(p))

\* C24: when a registrant of the priority class (a core member or guest on
\* the VIP list) gives up the seat, no waterfall invocation is triggered for
\* it: only the vacancies of ordinary registrants are counted, and the
\* priority seat stays unfilled until an organizer acts.
C24_PrioritySeatIsHeld ==
  [][(\E u \in NewlyVacated : PriorityClass(Row(u))) =>
       calls' = calls + Cardinality({u \in NewlyVacated : ~PriorityClass(Row(u))})]_vars

\* C25: the kill switch is read once, at the start of a waterfall invocation.
\* An invocation gets past its check only while the switch is on; switching
\* automation off changes no invocation in progress and no registration, so an
\* invocation that passed the check can always finish and then invites exactly
\* the one registration it locked; and apart from the admin rollout every
\* WAITING -> INVITED transition is the completion of an invocation that
\* passed the check.
PassesCheck(p) == waterfall[p].pc = "idle" /\ waterfall'[p].pc = "rpc"
SwitchedOff == event.is_waterfall_active /\ ~event.is_waterfall_active'
C25_KillSwitchReadOncePerPromotion ==
  /\ [][\A p \in Procs : PassesCheck(p) => event.is_waterfall_active]_vars
  /\ [][SwitchedOff => UNCHANGED <<waterfall, registrations, pendingCalls, emails>>]_vars
  /\ [](\A p \in Procs : waterfall[p].pc = "locked" => ENABLED WaterfallUpdate(p))
  /\ [][\A p \in Procs :
          (waterfall[p].pc = "locked" /\ waterfall'[p] = Idle) =>
            {u \in Users : Became(u, "WAITING", "INVITED")} = {waterfall[p].row}]_vars
  /\ [][\A u \in Users :
          (Became(u, "WAITING", "INVITED") /\ ~RolloutStep) => CompletesPromotion(u)]_vars

\* an invocation passed the check and locked its row, and automation was
\* switched off before the invocation ran its UPDATE
C25_Witness ==
  /\ ~event.is_waterfall_active
  /\ event.status = "rolled_out"
  /\ \E p \in Procs : waterfall[p].pc = "locked" /\ StatusOf(waterfall[p].row) = "WAITING"

\* C26: a run of the expiry job at time now, before the cutoff, moves to
\* EXPIRED exactly the INVITED registrations whose expires_at <= now (a
\* deadline equal to now included) and changes no other registration; and at
\* every instant an INVITED registration is either still confirmable (the
\* respond route does not answer "Invitation expired") or matched by the
\* expiry job, never both and never neither.
Due(t) == {r \in Invited : r.expires_at <= t}
Confirmable(r) == ~InvitationExpired(r, now)
C26_SweepExpiresExactlyTheDue ==
  /\ [][(Sweep /\ now < Cutoff) =>
          /\ {u \in Users : Became(u, "INVITED", "EXPIRED")} = UserIds(Due(now))
          /\ \A u \in Users :
               StatusOf(u)' # StatusOf(u) => Became(u, "INVITED", "EXPIRED")]_vars
  /\ [](\A r \in Invited : Confirmable(r) # (r \in Expirable(now)))

\* the cron job keeps running, invoked waterfall functions run to their end,
\* and time passes
SpecExpiry == Spec /\ Fairness /\ WF_vars(Tick)

\* C27: every registration that is INVITED eventually leaves INVITED (to
\* CONFIRMED, DECLINED or EXPIRED), whether automation is on or off and
\* whether it was invited before or after the kill switch was flipped; none
\* stays INVITED forever.  The clock of the model stops at Horizon, so the
\* property is stated for the deadlines the clock passes.
Horizon == Cutoff + InviteHours
PendingInvitation(u) == StatusOf(u) = "INVITED" /\ Row(u).expires_at < Horizon
C27_InvitedEventuallyLeaves ==
  \A u \in Users : PendingInvitation(u) ~> StatusOf(u) # "INVITED"

\* the deadline has passed, automation is off, and the expiry job has expired
\* the registration
C27_Witness ==
  /\ ~event.is_waterfall_active
  /\ event.status = "rolled_out"
  /\ \E r \in registrations : r.status = "EXPIRED" /\ r.expires_at < now

WaterfallStep(p) == WaterfallCheck(p) \/ WaterfallSelect(p) \/ WaterfallUpdate(p)
NoOpCall(p) ==
  /\ waterfall'[p] = Idle
  /\ UNCHANGED <<registrations, event, emails>>
C29_NoOpPromotionChangesNothing ==
  [][\A p \in Procs :
       /\ (WaterfallCheck(p) /\ ~event.is_waterfall_active) => NoOpCall(p)
       /\ (WaterfallSelect(p) /\ Waiting = {}) => NoOpCall(p)
       /\ (WaterfallStep(p) /\ now >= Cutoff) => NoOpCall(p)]_vars

\* ---- one waterfall invocation after another, with nothing in between ----
\* promote_next_user on the rows regs at time t
promote_next_user(regs, t) ==
  LET first == FirstByPosition({r \in regs : r.status = "WAITING"}, 1)
  IN (regs \ first) \cup {Invite(r, t) : r \in first}

\* the waterfall function: kill-switch check, then promote_next_user
WaterfallCall(regs, t) == IF WaterfallPaused THEN regs ELSE promote_next_user(regs, t)

RECURSIVE SuccessiveCalls(_, _, _)
SuccessiveCalls(regs, n, t) ==
  IF n = 0 THEN regs ELSE SuccessiveCalls(WaterfallCall(regs, t), n - 1, t)

\* C30: the batch promotion of the rollout invites min(n, number waiting)
\* registrations and leaves the registrations exactly as n waterfall
\* invocations, run one after the other from the same state, would leave them:
\* the same rows, the same deadline, the same kill-switch guard.
C30_BatchEqualsSuccessivePromotions ==
  [][RolloutStep =>
       /\ Cardinality({u \in Users : Became(u, "WAITING", "INVITED")}) =
            Min(Capacity, Cardinality(Waiting))
       /\ registrations' = SuccessiveCalls(registrations, Capacity, now)]_vars

\* ---- an administrator adds a guest outside the automation ----
\* the week of an event some readers have registered for; the others can
\* still be added by an administrator
InitOverride ==
  /\ now = At(0, OpenHour)
  /\ event = [status |-> "open", is_waterfall_active |-> FALSE]
  /\ \E k \in 0..MaxUsers : \E kind \in [1..k -> Kinds] :
       /\ registrations = {RegisteredRow(u, kind[u], now) : u \in 1..k}
       /\ vip_list = {u \in 1..k : kind[u] # "reader"}
  /\ insert_tx = [r \in Reqs |-> NoTx]
  /\ waterfall = [p \in Procs |-> Idle]
  /\ expire_job = [p \in Procs |-> NoJob]
  /\ emails = [u \in Users |-> 0]
  /\ OneEvent
  /\ pendingCalls = 0
  /\ calls = 0
  /\ response = "OK"

\* the row of the added guest: INVITED from the start, is_manual_override set,
\* queue position from the BEFORE INSERT trigger
OverrideRow(u, t) ==
  [user_id |-> u, queue_position |-> assign_queue_position,
   status |-> "INVITED", invited_at |-> t, expires_at |-> t + InviteHours,
   responded_at |-> NULL_TS, is_manual_override |-> TRUE]

ForceInvite(u) ==
  /\ ~Registered(u)
  /\ registrations' = registrations \cup {OverrideRow(u, now)}
  /\ response' = Resp("force_invite", "OK")
  /\ UNCHANGED <<now, event, vip_list, insert_tx, waterfall, pendingCalls, calls, expire_job, emails, cyclevars>>

NextOverride ==
  \/ Next
  \/ \E u \in Users : ForceInvite(u)

SpecOverride == InitOverride /\ [][NextOverride]_vars

\* C31: a guest added by an administrator is INVITED from the start without
\* any waterfall invocation and takes none of the event's seats (the rollout
\* still invites a full batch); from then on the row is treated like any
\* other invitation: each decline or expiry of it, like each other vacancy of
\* the same step, triggers exactly one waterfall invocation.
Overrides == {r \in registrations : r.is_manual_override}
C31_OverrideInvitedOutsideCapacity ==
  /\ [][\A u \in Users :
          ForceInvite(u) =>
            /\ Row(u)'.status = "INVITED" /\ Row(u)'.is_manual_override
            /\ SeatHolders' = SeatHolders
            /\ UNCHANGED <<waterfall, pendingCalls, calls>>]_vars
  /\ [][(RolloutStep /\ Overrides # {}) =>
          Cardinality({u \in Users : Became(u, "WAITING", "INVITED")}) =
            Min(Capacity, Cardinality(Waiting))]_vars
  /\ [][(\E u \in NewlyVacated : Row(u).is_manual_override) =>
          /\ calls' = calls + Cardinality(NewlyVacated)
          /\ pendingCalls' = pendingCalls + Cardinality(NewlyVacated)]_vars

\* an added guest let the invitation expire before any rollout, the one
\* invocation this caused has run, and it invited a waiting reader
C31_Witness ==
  /\ event.status = "open"
  /\ \E r \in Overrides : r.status = "EXPIRED"
  /\ calls = 1
  /\ pendingCalls = 0
  /\ \E r \in registrations :
       ~r.is_manual_override /\ r.status = "INVITED" /\ emails[r.user_id] = 1

\* C32: in every state a registration has expires_at set if and only if its
\* status is INVITED: the promotion sets it, and confirming, declining and
\* expiring clear it.
C32_DeadlineSetIffInvited ==
  \A r \in registrations : (r.expires_at # NULL_TS) <=> (r.status = "INVITED")

\* C33: in every state, a registration whose invited_at and expires_at are
\* both set has expires_at strictly later than invited_at, also when it was
\* invited right before, at or after the cutoff.
BothSet(r) == r.invited_at # NULL_TS /\ r.expires_at # NULL_TS
C33_DeadlineAfterInvitation ==
  \A r \in registrations : BothSet(r) => r.expires_at > r.invited_at

\* a reader was invited, with an invitation e-mail, two hours before the
\* cutoff
C33_Witness ==
  \E r \in registrations :
    /\ BothSet(r)
    /\ r.invited_at = Cutoff - 2
    /\ emails[r.user_id] = 1

\* ---- the registration time gate over more than one week ----
\* Mon 8:00, Mon 9:00, Mon 23:00, Tue 9:00 of the event's week, and
\* Mon 8:00, Mon 9:00 of the week after
GateTimes ==
  {At(0, OpenHour - 1), At(0, OpenHour), At(0, CloseHour - 1), At(1, OpenHour),
   At(7, OpenHour - 1), At(7, OpenHour)}

InitGate ==
  /\ now = At(0, OpenHour - 1)
  /\ event = [status |-> "open", is_waterfall_active |-> FALSE]
  /\ registrations = {}
  /\ vip_list \in SUBSET Users
  /\ insert_tx = [r \in Reqs |-> NoTx]
  /\ waterfall = [p \in Procs |-> Idle]
  /\ expire_job = [p \in Procs |-> NoJob]
  /\ emails = [u \in Users |-> 0]
  /\ OneEvent
  /\ pendingCalls = 0
  /\ calls = 0
  /\ response = "OK"

TickGate ==
  /\ Quiescent
  /\ \E t \in GateTimes : t > now /\ now' = t
  /\ response' = Resp("tick", "OK")
  /\ UNCHANGED <<event, registrations, vip_list, insert_tx, waterfall, pendingCalls, calls, expire_job, emails, cyclevars>>

NextGate ==
  \/ TickGate
  \/ \E q \in Reqs, u \in Users : EnrollBegin(q, u)
  \/ \E q \in Reqs : EnrollCommit(q)

SpecGate == InitGate /\ [][NextGate]_vars

\* C34: a registration request succeeds only between the opening of the
\* event's own registration window (Monday 9:00 of the event's week) and the
\* end of that day; at any other time (before the opening, on a later day, on
\* a Monday of another week) it is answered REGISTRATION_CLOSED, no row is
\* inserted and no queue position is used.
InOwnWindow(t) == t >= At(0, OpenHour) /\ t < At(1, 0)
C34_EnrollOnlyInOwnWindow ==
  [][~InOwnWindow(now) =>
       /\ registrations' = registrations
       /\ insert_tx' = insert_tx
       /\ \A q \in Reqs, u \in Users :
            EnrollBegin(q, u) => response' = "REGISTRATION_CLOSED"]_vars

\* C35: the registration of a user on the VIP list is INVITED by the insert
\* itself, with invited_at = now and the deadline set, and with the next queue
\* position of the event; the row is never WAITING, and no waterfall invocation
\* is made for it.
Inserting(q) == insert_tx[q] = NoTx /\ insert_tx'[q] # NoTx
AdminDelete(u) ==
  /\ Registered(u)
  /\ \A q \in Reqs : insert_tx[q] = NoTx
  /\ \A r \in registrations : r.queue_position <= MaxUsers
  /\ calls < MaxCalls
  /\ registrations' = registrations \ {Row(u)}
  /\ response' = Resp("admin_delete", "OK")
  /\ UNCHANGED <<now, event, vip_list, insert_tx, waterfall, pendingCalls, calls, expire_job, emails, cyclevars>>

\* RLS policy registrations_update_own: the reader updates a column other than
\* status of the own row; WITH CHECK is evaluated on the status the row keeps,
\* and UNIQUE(event_id, queue_position) on the new position
UpdateOwnPosition(u, pos) ==
  /\ Registered(u)
  /\ \A q \in Reqs : insert_tx[q] = NoTx
  /\ IF UpdateOwnCheck(Row(u).status) /\ pos \notin {r.queue_position : r \in registrations}
     THEN /\ registrations' = (registrations \ {Row(u)}) \cup {[Row(u) EXCEPT !.queue_position = pos]}
          /\ response' = Resp("update_own", "UPDATED")
     ELSE /\ response' = Resp("update_own", "POLICY_VIOLATION")
          /\ UNCHANGED registrations
  /\ UNCHANGED <<now, event, vip_list, insert_tx, waterfall, pendingCalls, calls, expire_job, emails, cyclevars>>

NextRows ==
  \/ NextEnroll
  \/ \E u \in Users, d \in {"confirm", "decline"} : Respond(u, d)
  \/ \E u \in Users : AdminDelete(u)
  \/ \E u \in Users, pos \in 0..MaxUsers : UpdateOwnPosition(u, pos)

SpecRows == InitEnroll /\ [][NextRows]_vars

\* C36: no operation deletes a registration or changes its queue position or
\* its user after the insert, so a queue position once assigned is never
\* given to another registration of the event, and DECLINED, EXPIRED and
\* ATTENDED registrations stay in the table.
C36_RowsAndPositionsPersist ==
  [][\A r \in registrations :
       \E r2 \in registrations' :
         r2.user_id = r.user_id /\ r2.queue_position = r.queue_position]_vars

\* ---- the e-mail provider fails ----
\* the waterfall function's fetch to the e-mail API fails after
\* promote_next_user has committed, and the failure undoes the promotion
WaterfallUpdateRolledBack(p) ==
  /\ waterfall[p].pc = "locked"
  /\ waterfall' = [waterfall EXCEPT ![p] = Idle]
  /\ response' = Resp("waterfall", "INTERNAL_ERROR")
  /\ UNCHANGED <<now, event, registrations, vip_list, insert_tx, pendingCalls, calls, expire_job, emails, cyclevars>>

\* the waterfall function's fetch to the e-mail API fails after
\* promote_next_user has committed: no invitation e-mail is delivered
WaterfallUpdateUndelivered(p) ==
  /\ waterfall[p].pc = "locked"
  /\ registrations' = (registrations \ {Row(waterfall[p].row)})
                        \cup {Invite(Row(waterfall[p].row), now)}
  /\ waterfall' = [waterfall EXCEPT ![p] = Idle]
  /\ response' = Resp("waterfall", "INTERNAL_ERROR")
  /\ UNCHANGED <<now, event, vip_list, insert_tx, pendingCalls, calls, expire_job, emails, cyclevars>>

NextNotify ==
  \/ Next
  \/ \E p \in Procs : WaterfallUpdateUndelivered(p)

SpecNotify == Init /\ [][NextNotify]_vars

\* C37: a failure to deliver a notification neither prevents nor undoes the
\* status transition it belongs to, and it does not prevent the waterfall
\* invocation that follows a decline or an expiry: a promotion that holds its
\* row ends with the row INVITED whether or not the e-mail went out, no
\* registration ever returns to WAITING, and every registration that becomes
\* DECLINED or EXPIRED, delivered invitation or not, causes one invocation.
C37_DeliveryFailureBlocksNothing ==
  /\ [][\A p \in Procs, u \in Users :
          (waterfall[p] = [pc |-> "locked", row |-> u] /\ waterfall'[p] = Idle) =>
            /\ StatusOf(u)' = "INVITED"
            /\ Row(u)'.expires_at = now + InviteHours]_vars
  /\ [][\A u \in Users : StatusOf(u) # "WAITING" => StatusOf(u)' # "WAITING"]_vars
  /\ [][/\ calls' = calls + Cardinality(NewlyVacated)
        /\ NewlyVacated # {} => pendingCalls' = pendingCalls + Cardinality(NewlyVacated)]_vars

\* a reader was promoted without the e-mail being delivered, the invitation
\* expired, and the expiry caused a waterfall invocation of its own
C37_Witness ==
  \E r \in registrations :
    /\ r.status = "EXPIRED"
    /\ emails[r.user_id] = 0
    /\ r.invited_at > At(0, OpenHour)
    /\ calls >= 2

\* ---- a statement or a procedure fails before it commits ----
\* promote_next_user raises an error after its SELECT ... FOR UPDATE: the
\* function's transaction is rolled back and the row lock released
WaterfallAbort(p) ==
  /\ waterfall[p].pc \in {"rpc", "locked"}
  /\ waterfall' = [waterfall EXCEPT ![p] = Idle]
  /\ response' = Resp("waterfall", "INTERNAL_ERROR")
  /\ UNCHANGED <<now, event, registrations, vip_list, insert_tx, pendingCalls, calls, expire_job, emails, cyclevars>>

\* the rows a run of the expiry job has updated so far, as they were before
Restored(p) ==
  {[r EXCEPT !.status = "INVITED"] :
     r \in {x \in registrations : x.user_id \in expire_job[p].returned}}

\* the job's UPDATE fails partway and what it did so far stays
ExpireAbortPartial(p) ==
  /\ expire_job[p].pc = "update"
  /\ expire_job' = [expire_job EXCEPT ![p] = NoJob]
  /\ response' = Resp("expire_invites", "INTERNAL_ERROR")
  /\ UNCHANGED <<now, event, registrations, vip_list, insert_tx, waterfall, pendingCalls, calls, emails, cyclevars>>

\* the job's UPDATE fails partway: the statement is rolled back as a whole,
\* nothing is returned and no waterfall call is made
ExpireAbort(p) ==
  /\ expire_job[p].pc = "update"
  /\ registrations' =
       {r \in registrations : r.user_id \notin expire_job[p].returned} \cup Restored(p)
  /\ expire_job' = [expire_job EXCEPT ![p] = NoJob]
  /\ response' = Resp("expire_invites", "INTERNAL_ERROR")
  /\ UNCHANGED <<now, event, vip_list, insert_tx, waterfall, pendingCalls, calls, emails, cyclevars>>

NextFail ==
  \/ NextSweep
  \/ \E p \in Procs : WaterfallCheck(p)
  \/ \E p \in Procs : WaterfallSelect(p)
  \/ \E p \in Procs : WaterfallUpdate(p)
  \/ \E p \in Procs : WaterfallAbort(p)
  \/ \E p \in Procs : ExpireAbort(p)

SpecFail == Init /\ [][NextFail]_vars

\* C38: when a promotion or a run of the expiry job fails partway, every
\* registration it touched has its prior status and timestamps again: a
\* failed promotion leaves the row WAITING and unlocked, a failed run of the
\* job leaves its rows INVITED and still due, with no waterfall call made for
\* them, so a later promotion or run succeeds on them; and every DECLINED or
\* EXPIRED registration is accounted for by a waterfall call or by a run of
\* the job that is still in progress.
C38_FailedTransitionLeavesPriorState ==
  /\ [][\A p \in Procs, u \in Users :
          (waterfall[p] = [pc |-> "locked", row |-> u] /\ WaterfallAbort(p)) =>
            /\ Row(u)' = Row(u)
            /\ Row(u)' \in NextWaiting']_vars
  /\ [][\A p \in Procs :
          ExpireAbort(p) =>
            \A u \in expire_job[p].returned :
              /\ Row(u)' = [Row(u) EXCEPT !.status = "INVITED"]
              /\ ExpireMatches(Row(u), now)']_vars
  /\ [](Cardinality(Vacated) = calls + Cardinality(Returned))
  /\ [](\A r \in registrations :
          /\ r.status = "WAITING" => r.invited_at = NULL_TS /\ r.expires_at = NULL_TS
          /\ r.status = "INVITED" => r.invited_at # NULL_TS /\ r.expires_at # NULL_TS)

\* a run of the expiry job has failed; a registration that is due is INVITED
\* as before, and no run or promotion is in progress
C38_Witness ==
  /\ response = "INTERNAL_ERROR"
  /\ \A p \in Procs : expire_job[p] = NoJob /\ waterfall[p] = Idle
  /\ \E r \in registrations : r.status = "INVITED" /\ r.expires_at < now

\* ---- the expiry job over the rows of all events ----
\* every reader has registered for every event
InitSweepAll ==
  /\ now = At(0, OpenHour)
  /\ event = [status |-> "open", is_waterfall_active |-> FALSE]
  /\ registrations = {}
  /\ vip_list = {}
  /\ insert_tx = [r \in Reqs |-> NoTx]
  /\ waterfall = [p \in Procs |-> Idle]
  /\ expire_job = [p \in Procs |-> NoJob]
  /\ emails = [u \in Users |-> 0]
  /\ pendingCalls = 0
  /\ calls = 0
  /\ response = "OK"
  /\ events = [e \in EventIds |-> [status |-> "open", is_waterfall_active |-> FALSE]]
  /\ table = {[event_id |-> e, user_id |-> u, queue_position |-> u,
               status |-> "WAITING", invited_at |-> NULL_TS,
               expires_at |-> NULL_TS, responded_at |-> NULL_TS,
               is_manual_override |-> FALSE] : e \in EventIds, u \in Users}
  /\ rpc = [p \in Procs |-> NoRpc]
  /\ inserts = [q \in Reqs |-> NoInsert]
  /\ op_event = 0
  /\ stuck = {}

\* WHERE status = 'INVITED' AND expires_at < NOW(): no condition on event_id
DueAll(t) == {r \in table : r.status = "INVITED" /\ r.expires_at < t}

\* the rows of event e among them
DueOfEvent(e, t) == {r \in DueAll(t) : r.event_id = e}

\* a row of event e can no longer be updated: its lock is held by a
\* transaction that does not end, or the UPDATE of it raises an error
Fault(e) ==
  /\ e \notin stuck
  /\ stuck' = stuck \cup {e}
  /\ op_event' = e
  /\ UNCHANGED <<events, table, rpc, inserts, eventvars>>

\* a run of the job: one UPDATE over the rows of all events; if it cannot
\* update one of the rows it waits or fails as a whole and changes nothing
SweepAll ==
  /\ LET old == DueAll(now)
     IN IF \E r \in old : r.event_id \in stuck
        THEN UNCHANGED table
        ELSE table' = (table \ old) \cup {[r EXCEPT !.status = "EXPIRED"] : r \in old}
  /\ op_event' = 0
  /\ UNCHANGED <<events, rpc, inserts, stuck, eventvars>>

NextSweepAll ==
  \/ Tick
  \/ \E e \in EventIds : RolloutOf(e)
  \/ \E e \in EventIds : Fault(e)
  \/ SweepAll

\* the cron job keeps running and time passes
SpecSweepAll ==
  InitSweepAll /\ [][NextSweepAll]_vars /\ WF_vars(SweepAll) /\ WF_vars(Tick)

\* C39: a run of the expiry job that fails or stalls on the rows of one event
\* does not stop the others: in every event whose rows can be updated, the
\* INVITED registrations whose deadline has passed are eventually expired.
HasDue(e) == e \notin stuck /\ DueOfEvent(e, now) # {}
C39_OtherEventsStillExpire ==
  \A e \in EventIds : HasDue(e) ~> ~HasDue(e)
====
